---- MODULE Spec2Model ----
(***************************************************************************)
(* Model of the SmartHub browser client: the connection reconciler of      *)
(* App (syncStatus, handleToggle, the polling effect), the connectivity    *)
(* probe and status parser of services/esp32 and the voice command engine  *)
(* of components/VoiceControl.                                             *)
(***************************************************************************)
EXTENDS Integers, Sequences, FiniteSets, TLC

VARIABLES
  useDemoMode,       \* settings.useDemoMode
  relays,            \* relays[i].state for the four relays, by id
  relayList,         \* the id, name and isLoading of each element of relays, in order
  connectionStatus,  \* connectionStatus (ConnectionStatus enum value)
  isCorsRestricted,  \* isCorsRestricted
  polls,             \* syncStatus invocations suspended at `await fetchRelayStatus`
  toggles,           \* handleToggle invocations suspended at `await toggleRelayRequest`
  confirmTimers,     \* pending setTimeout(syncStatus, 500), each with its captured closure
  effectPending,     \* the polling effect is due: syncStatus changed in the last commit
  intervals,         \* armed setInterval(syncStatus, 5000) timers
  overtaken,         \* history: per suspended poll, oldest first, whether a poll started
                     \* after it has been applied already
  demoFinal,         \* history: the value a toggle made in demo mode left in each relay
  last,              \* history: the handler that ran last and what it saw
  isSendingLcd,      \* isSendingLcd
  lcds,              \* handleLcdSubmit invocations suspended at their await
  \* one invocation of fetchRelayStatus
  pPc,               \* where the invocation stands
  pFetch1,           \* how the readable (cors) fetch settled
  pStatus,           \* response.status of the readable fetch, 0 before it resolved
  pText,             \* how response.text() settled
  pBody,             \* the body text read
  pFetch2,           \* how the opaque (no-cors) fetch settled
  pError,            \* the error caught by the outer catch
  pOutcome,          \* what the invocation returned or threw
  pRequests,         \* the fetch calls the invocation has made, in order, by mode
  \* VoiceControl
  now,               \* the clock, in ms
  isListening,       \* isListening
  isAlwaysListening, \* isAlwaysListeningRef.current
  recState,          \* the recognition session: idle, starting, running, stopping
  restartTimers,     \* pending setTimeout(() => recognitionInstance.start(), 200)
  micDenied,         \* error is "Microphone access denied"
  isAwake,           \* isAwakeRef.current (and isAwake)
  awakeTimers,       \* the deadlines of the pending awake timers
  wakeAt,            \* history: when the latest wake trigger was heard, -1 for never
  userStopped,       \* history: the latest click on the microphone button was a stop
  denied,            \* history: permission was denied and the button not clicked since
  vLast,             \* history: the voice handler that ran last and what it did
  \* one call of processCommand
  pcCmd,             \* cmd, the text it is given
  pcCall,            \* the call of commandFn it made, if any
  \* one call of toggleRelayRequest
  tPc,               \* idle, or called: the promise has been handed to the caller
  tIp,               \* ip, the address it is given
  tIndex,            \* relayIndex
  tBase,             \* baseUrl
  tUrl,              \* url, up to its timestamp
  tImg,              \* the image request: loading, loaded or failed
  tTimer,            \* setTimeout(() => resolve(), 100) is pending
  tPromise,          \* the promise returned: pending, resolved or rejected
  tBy,               \* what settled the promise
  \* the device, as the probes see it
  device             \* whether it has settled, and the relay states it has then

appVars == <<useDemoMode, relays, relayList, connectionStatus, isCorsRestricted,
             polls, toggles, confirmTimers, effectPending, intervals, overtaken,
             demoFinal, last>>

lcdVars == <<isSendingLcd, lcds>>

probeVars == <<pPc, pFetch1, pStatus, pText, pBody, pFetch2, pError, pOutcome,
               pRequests>>

voiceVars == <<now, isListening, isAlwaysListening, recState, restartTimers,
               micDenied, isAwake, awakeTimers, wakeAt, userStopped, denied, vLast>>

extractVars == <<pcCmd, pcCall>>

transportVars == <<tPc, tIp, tIndex, tBase, tUrl, tImg, tTimer, tPromise, tBy>>

deviceVars == <<device>>

vars == <<appVars, lcdVars, probeVars, voiceVars, extractVars, transportVars, deviceVars>>

\* What the handlers of one component leave alone.
exceptApp == <<lcdVars, probeVars, voiceVars, extractVars, transportVars, deviceVars>>
exceptDisplay == <<probeVars, voiceVars, extractVars, transportVars, deviceVars>>
exceptProbe == <<appVars, lcdVars, voiceVars, extractVars, transportVars, deviceVars>>
exceptVoice == <<appVars, lcdVars, probeVars, extractVars, transportVars, deviceVars>>
exceptExtract == <<appVars, lcdVars, probeVars, voiceVars, transportVars, deviceVars>>
exceptTransport == <<appVars, lcdVars, probeVars, voiceVars, extractVars, deviceVars>>

----
\* Bounds of the model.
\* syncStatus invocations suspended at their await at one time
MaxPolls == 2
\* handleToggle and handleLcdSubmit invocations not yet over: suspended at
\* their await, or waiting for their confirmation timer
MaxToggles == 1
\* fragments a response body is made of
MaxFragments == 2
\* phrases a command text is made of
MaxPhrases == 3
\* steps of the clock
MaxTicks == 3
\* pending restart timers of the recognition session
MaxRestarts == 1
\* slashes an address ends with
MaxSlashes == 2

\* Program constants.
NumRelays == 4
AwakeWindowMs == 10000

\* The step of the model's clock.
TickMs == AwakeWindowMs \div 2

RelayIds == 0 .. (NumRelays - 1)

ConnectionStatus == {"disconnected", "connecting", "connected", "error"}

AllOff == [i \in RelayIds |-> FALSE]

----
\* Text is a sequence of one-character strings.
Uppers == <<"A", "B", "C", "D", "E", "F", "G", "H", "I", "J", "K", "L", "M", "N", "O", "P", "Q", "R", "S", "T", "U", "V", "W", "X", "Y", "Z">>
Lowers == <<"a", "b", "c", "d", "e", "f", "g", "h", "i", "j", "k", "l", "m", "n", "o", "p", "q", "r", "s", "t", "u", "v", "w", "x", "y", "z">>

IndexIn(c, alphabet) == CHOOSE k \in 1 .. Len(alphabet) : alphabet[k] = c

\* String.prototype.toUpperCase / toLowerCase, one character.
UpperChar(c) ==
  IF \E k \in 1 .. Len(Lowers) : Lowers[k] = c THEN Uppers[IndexIn(c, Lowers)] ELSE c
LowerChar(c) ==
  IF \E k \in 1 .. Len(Uppers) : Uppers[k] = c THEN Lowers[IndexIn(c, Uppers)] ELSE c

toUpperCase(s) == [j \in 1 .. Len(s) |-> UpperChar(s[j])]
toLowerCase(s) == [j \in 1 .. Len(s) |-> LowerChar(s[j])]

\* Two characters are equal under a regular expression's `i` flag.
SameIgnoringCase(a, b) == UpperChar(a) = UpperChar(b)

\* The literal `lit` matches `s` at position p (1-based), ignoring case or not.
LiteralAt(s, p, lit, ignoreCase) ==
  /\ p >= 1
  /\ p + Len(lit) - 1 <= Len(s)
  /\ \A j \in 1 .. Len(lit) :
       IF ignoreCase THEN SameIgnoringCase(s[p + j - 1], lit[j])
                     ELSE s[p + j - 1] = lit[j]

Digits == <<"0", "1", "2", "3", "4", "5", "6", "7", "8", "9">>
DigitChar(n) == Digits[n + 1]

\* Mutant: the pattern is built from the 0-based id, not from the 1-based label.
RelayPatternZeroBased(i) == <<"R", "e", "l", "a", "y", " ">> \o <<DigitChar(i)>> \o <<":", " ">>

\* The source of new RegExp(`Relay ${i + 1}: (ON|OFF)`, 'i') up to its group.
RelayPattern(i) == <<"R", "e", "l", "a", "y", " ">> \o <<DigitChar(i + 1)>> \o <<":", " ">>
GroupOn == <<"O", "N">>
GroupOff == <<"O", "F", "F">>

\* The regular expression of relay i matches html at position p.
RelayRegexAt(html, i, p) ==
  /\ LiteralAt(html, p, RelayPattern(i), TRUE)
  /\ \/ LiteralAt(html, p + Len(RelayPattern(i)), GroupOn, TRUE)
     \/ LiteralAt(html, p + Len(RelayPattern(i)), GroupOff, TRUE)

\* html.match(regex): the leftmost position the expression matches at, 0 for null.
RelayMatch(html, i) ==
  IF \E p \in 1 .. Len(html) : RelayRegexAt(html, i, p)
    THEN CHOOSE p \in 1 .. Len(html) :
           /\ RelayRegexAt(html, i, p)
           /\ \A q \in 1 .. (p - 1) : ~RelayRegexAt(html, i, q)
    ELSE 0

\* match[1]: the text the group (ON|OFF) matched, ON being tried first.
MatchGroup(html, i, p) ==
  LET g == p + Len(RelayPattern(i))
  IN IF LiteralAt(html, g, GroupOn, TRUE)
       THEN SubSeq(html, g, g + Len(GroupOn) - 1)
       ELSE SubSeq(html, g, g + Len(GroupOff) - 1)

parseRelayStatus(html) ==
  [i \in RelayIds |->
     LET p == RelayMatch(html, i)
     IN IF p = 0 THEN FALSE ELSE toUpperCase(MatchGroup(html, i, p)) = GroupOn]

\* The status page of the device: a line per relay, labelled from 1.
RECURSIVE RenderPage(_, _)
RenderPage(states, i) ==
  IF i >= NumRelays THEN <<>>
  ELSE <<"R", "e", "l", "a", "y", " ">> \o <<DigitChar(i + 1)>> \o <<":", " ">>
       \o (IF states[i] THEN <<"O", "N">> ELSE <<"O", "F", "F">>) \o <<"<", "b", "r", ">">> \o RenderPage(states, i + 1)

\* The relay states a readable poll can bring back.
DeviceStates == {AllOff, [i \in RelayIds |-> TRUE]}
PollStates == {parseRelayStatus(RenderPage(d, 0)) : d \in DeviceStates}

\* Pieces of status text the bodies of the probe's model are put together from.
Fragments == {
  <<"R", "e", "l", "a", "y", " ", "1", ":", " ", "O", "N", " ">>,
  <<"r", "e", "l", "a", "y", " ", "1", ":", " ", "o", "f", "f", " ">>,
  <<"R", "E", "L", "A", "Y", " ", "2", ":", " ", "O", "n", " ">>,
  <<"R", "e", "l", "a", "y", " ", "3", ":", " ", "O", "F", "F">>,
  <<"R", "e", "l", "a", "y", " ", "4", ":", " ", "o", "N">>,
  <<"R", "e", "l", "a", "y", " ", "0", ":", " ", "O", "N", " ">>,
  <<"R", "e", "l", "a", "y", " ", "1", ":", " ">>,
  <<"O", "N">>,
  <<"R", "e", "l", "a", "y", " ", "2", ":", " ", "O", "F">>,
  <<"x">>
}

RECURSIVE TextsOf(_)
TextsOf(n) ==
  IF n = 0 THEN {<<>>}
  ELSE TextsOf(n - 1) \cup {t \o f : t \in TextsOf(n - 1), f \in Fragments}

Texts == TextsOf(MaxFragments)

PollOutcomes == {"StatesKnown", "ReachableOpaque", "Unreachable"}

\* The relay a click or a voice command toggles in the model: the last one.
ToggleIds == {3}

\* The ids the handlers are called with: those and one past the last relay.
CalledIds == ToggleIds \cup {NumRelays}

\* relays.find(r => r.id === id)?.state, false when there is no such relay.
StateOf(rs, id) == IF id \in RelayIds THEN rs[id] ELSE FALSE

----
\* The reconciler state a syncStatus call reads and writes.
AppState(st, cors, n) == [status |-> st, restricted |-> cors, polls |-> n, net |-> FALSE]

\* syncStatus up to its first await, run with the closure (demo, closStatus).
SyncStatus(demo, closStatus, s) ==
  IF demo
    THEN [s EXCEPT !.status = "connected", !.restricted = FALSE]
    ELSE [s EXCEPT !.status = IF closStatus \in {"error", "disconnected"}
                               THEN "connecting" ELSE @,
                   !.polls = @ + 1,
                   !.net = TRUE]

\* The dependencies of useCallback(syncStatus) differ from the rendered ones, so
\* the polling effect, which depends on syncStatus, is due after the commit.
SyncStatusChanged(demo, s) == demo # useDemoMode \/ s.status # connectionStatus

\* The suspended polls there are once the effects that are due have run.
RECURSIVE AfterEffects(_, _)
AfterEffects(demo, s) ==
  LET s2 == SyncStatus(demo, s.status, s)
  IN IF s2.status = s.status THEN s2.polls ELSE AfterEffects(demo, s2)

\* Mutant: the update forgets to compare the id and negates every relay.
FlipEvery(rs, id) == [i \in RelayIds |-> ~rs[i]]

Flip(rs, id) == [i \in RelayIds |-> IF i = id THEN ~rs[i] ELSE rs[i]]

RemoveAt(q, k) == [j \in 1 .. (Len(q) - 1) |-> IF j < k THEN q[j] ELSE q[j + 1]]

Hist(op, id, was, net, outcome, states) ==
  [op |-> op, id |-> id, was |-> was, pre |-> relays, demo |-> useDemoMode,
   net |-> net, outcome |-> outcome, states |-> states, stale |-> FALSE]

\* A handler's updates are committed; the model goes on only where the polls
\* the due effects start still fit its bound.
Apply(demo, s) ==
  /\ s.polls <= MaxPolls
  /\ SyncStatusChanged(demo, s) => AfterEffects(demo, s) <= MaxPolls
  /\ useDemoMode' = demo
  /\ connectionStatus' = s.status
  /\ isCorsRestricted' = s.restricted
  /\ polls' = s.polls
  /\ s.polls > polls => overtaken' = Append(overtaken, FALSE)
  /\ s.polls = polls => overtaken' = overtaken
  /\ effectPending' = SyncStatusChanged(demo, s)

Current == AppState(connectionStatus, isCorsRestricted, polls)

NoFinal == [i \in RelayIds |-> "none"]

\* useState<Relay[]>([...]): the four relays the application starts with.
InitialRelays == <<
  [id |-> 0, name |-> "Living Room Light", isLoading |-> FALSE],
  [id |-> 1, name |-> "Bedroom Light", isLoading |-> FALSE],
  [id |-> 2, name |-> "Kitchen Light", isLoading |-> FALSE],
  [id |-> 3, name |-> "Bedroom Fan", isLoading |-> FALSE]
>>

\* Mutant: the toggled relay is filtered out of the list.
ToggleListDropping(list, id) == SelectSeq(list, LAMBDA r : r.id # id)

\* prev.map(r => r.id === id ? { ...r, state: !r.state } : r), but for state.
ToggleList(list, id) == [j \in 1 .. Len(list) |-> list[j]]

\* prev.map((r, idx) => ({ ...r, state: states[idx] ?? false, isLoading: false })),
\* but for state.
PollList(outcome, list) ==
  IF outcome = "StatesKnown"
    THEN [j \in 1 .. Len(list) |-> [list[j] EXCEPT !.isLoading = FALSE]]
    ELSE list

----
\* The state after the first render: the polling effect of the mount is due.
InitApp ==
  /\ useDemoMode = TRUE
  /\ relays = AllOff
  /\ relayList = InitialRelays
  /\ connectionStatus = "connecting"
  /\ isCorsRestricted = FALSE
  /\ polls = 0
  /\ toggles = <<>>
  /\ confirmTimers = <<>>
  /\ effectPending = TRUE
  /\ intervals = 0
  /\ overtaken = <<>>
  /\ demoFinal = NoFinal
  /\ last = [op |-> "render", id |-> -1, was |-> FALSE, pre |-> AllOff,
             demo |-> TRUE, net |-> FALSE, outcome |-> "none", states |-> AllOff,
             stale |-> FALSE]
  /\ isSendingLcd = FALSE
  /\ lcds = <<>>
  /\ device = [settled |-> FALSE, states |-> AllOff]

\* Mutant: the effect has no cleanup.
NoCleanup(n) == n

\* The cleanup of the effect's previous run: clearInterval(interval).
Cleanup(n) == IF n > 0 THEN n - 1 ELSE n

\* The polling effect runs: the cleanup of its previous run, then syncStatus of
\* the committed render and a new interval. It runs before the next handler does.
PollingEffect ==
  /\ UNCHANGED exceptApp
  /\ effectPending
  /\ LET s == SyncStatus(useDemoMode, connectionStatus, Current)
     IN /\ Apply(useDemoMode, s)
        /\ last' = Hist("effect", -1, FALSE, s.net, last.op, AllOff)
  /\ intervals' = Cleanup(intervals) + 1
  /\ UNCHANGED <<relays, relayList, toggles, confirmTimers, demoFinal>>

\* A tick of setInterval(syncStatus, 5000): the closure of the latest effect run.
IntervalTick ==
  /\ UNCHANGED exceptApp
  /\ ~effectPending
  /\ intervals > 0
  /\ LET s == SyncStatus(useDemoMode, connectionStatus, Current)
     IN /\ Apply(useDemoMode, s)
        /\ last' = Hist("tick", -1, FALSE, s.net, "none", AllOff)
        /\ UNCHANGED <<relays, relayList, toggles, confirmTimers, intervals, demoFinal>>

\* "Save Changes" in the settings dialog: syncStatus() of the current render.
SaveChanges ==
  /\ UNCHANGED exceptApp
  /\ ~effectPending
  /\ LET s == SyncStatus(useDemoMode, connectionStatus, Current)
     IN /\ Apply(useDemoMode, s)
        /\ last' = Hist("save", -1, FALSE, s.net, "none", AllOff)
        /\ UNCHANGED <<relays, relayList, toggles, confirmTimers, intervals, demoFinal>>

\* The address field of the settings dialog changes: syncStatus depends on
\* settings.ipAddress, so the polling effect is due.
SetIpAddress ==
  /\ UNCHANGED exceptApp
  /\ ~effectPending
  /\ device.settled => polls < MaxPolls
  /\ effectPending' = TRUE
  /\ last' = Hist("setIp", -1, FALSE, FALSE, "none", AllOff)
  /\ UNCHANGED <<useDemoMode, relays, relayList, connectionStatus, isCorsRestricted,
                 polls, toggles, confirmTimers, intervals, overtaken, demoFinal>>

\* Mutant: the catch block leaves the restricted flag as it is.
PollResultErrorKeepsFlag(outcome, s) ==
  CASE outcome = "StatesKnown" ->
         [s EXCEPT !.restricted = FALSE, !.status = "connected", !.polls = @ - 1]
    [] outcome = "ReachableOpaque" ->
         [s EXCEPT !.restricted = TRUE, !.status = "connected", !.polls = @ - 1]
    [] outcome = "Unreachable" ->
         [s EXCEPT !.status = "error", !.polls = @ - 1]

\* Mutant: a null result is taken for a failure and sets ERROR.
PollResultOpaqueIsError(outcome, s) ==
  CASE outcome = "StatesKnown" ->
         [s EXCEPT !.restricted = FALSE, !.status = "connected", !.polls = @ - 1]
    [] outcome = "ReachableOpaque" ->
         [s EXCEPT !.restricted = FALSE, !.status = "error", !.polls = @ - 1]
    [] outcome = "Unreachable" ->
         [s EXCEPT !.restricted = FALSE, !.status = "error", !.polls = @ - 1]

\* Mutant: the null branch sets the restricted flag and leaves the status.
PollResultOpaqueKeepsStatus(outcome, s) ==
  CASE outcome = "StatesKnown" ->
         [s EXCEPT !.restricted = FALSE, !.status = "connected", !.polls = @ - 1]
    [] outcome = "ReachableOpaque" ->
         [s EXCEPT !.restricted = TRUE, !.polls = @ - 1]
    [] outcome = "Unreachable" ->
         [s EXCEPT !.restricted = FALSE, !.status = "error", !.polls = @ - 1]

\* What syncStatus does with the result of fetchRelayStatus.
PollResult(outcome, s) ==
  CASE outcome = "StatesKnown" ->
         [s EXCEPT !.restricted = FALSE, !.status = "connected", !.polls = @ - 1]
    [] outcome = "ReachableOpaque" ->
         [s EXCEPT !.restricted = TRUE, !.status = "connected", !.polls = @ - 1]
    [] outcome = "Unreachable" ->
         [s EXCEPT !.restricted = FALSE, !.status = "error", !.polls = @ - 1]

\* Mutant: the map over the relays stops one short of the last relay.
PollRelaysOneShort(outcome, states, rs) ==
  IF outcome = "StatesKnown"
    THEN [i \in RelayIds |-> IF i = NumRelays - 1 THEN rs[i] ELSE states[i]]
    ELSE rs

\* Mutant: the relays are overwritten whenever the device was reached, as if
\* the null result were a list of states.
PollRelaysWhenReached(outcome, states, rs) ==
  IF outcome # "Unreachable" THEN [i \in RelayIds |-> states[i]] ELSE rs

PollRelays(outcome, states, rs) ==
  IF outcome = "StatesKnown" THEN [i \in RelayIds |-> states[i]] ELSE rs

\* fetchRelayStatus of the k-th oldest suspended syncStatus settles, and that
\* syncStatus resumes after its await.
PollComplete(k, outcome, states) ==
  /\ ~effectPending
  /\ k \in 1 .. polls
  /\ device.settled => (outcome = "StatesKnown" /\ states = device.states)
  /\ LET s == PollResult(outcome, Current)
     IN /\ Apply(useDemoMode, s)
        /\ last' = [Hist("poll", -1, FALSE, s.net, outcome, states)
                      EXCEPT !.stale = overtaken[k]]
  /\ overtaken' = RemoveAt([j \in 1 .. polls |-> (j < k) \/ overtaken[j]], k)
  /\ relays' = PollRelays(outcome, states, relays)
  /\ relayList' = PollList(outcome, relayList)
  /\ UNCHANGED <<toggles, confirmTimers, intervals, demoFinal>>
  /\ UNCHANGED exceptApp

\* handleToggle up to its await; `by` is the voice action behind the call, or
\* "none" for a click.
HandleToggleBody(id, by) ==
  /\ ~effectPending
  /\ ~device.settled
  /\ relays' = Flip(relays, id)
  /\ relayList' = ToggleList(relayList, id)
  /\ IF useDemoMode
       THEN /\ toggles' = toggles
            /\ demoFinal' = [i \in RelayIds |->
                               IF i = id THEN (IF relays'[i] THEN "on" ELSE "off")
                                         ELSE demoFinal[i]]
            /\ last' = Hist("toggle", id, StateOf(relays, id), FALSE, by, AllOff)
       ELSE /\ Len(toggles) + Len(confirmTimers) + Len(lcds) < MaxToggles
            /\ toggles' = Append(toggles, [id |-> id,
                                           restricted |-> isCorsRestricted,
                                           status |-> connectionStatus,
                                           was |-> StateOf(relays, id)])
            /\ demoFinal' = demoFinal
            /\ last' = Hist("toggle", id, StateOf(relays, id), TRUE, by, AllOff)
  /\ UNCHANGED <<useDemoMode, connectionStatus, isCorsRestricted, polls,
                 confirmTimers, effectPending, intervals, overtaken>>

\* A click on a relay card.
HandleToggle(id) ==
  /\ UNCHANGED exceptApp
  /\ HandleToggleBody(id, "none")

\* Mutant: every voice command toggles.
ShouldToggleAlways(action, state) == TRUE

\* handleVoiceCommand's shouldToggle
ShouldToggle(action, state) == (action = "on" /\ ~state) \/ (action = "off" /\ state)

\* handleVoiceCommand(id, action), the onCommand of VoiceControl.
HandleVoiceCommand(id, action) ==
  IF id \in RelayIds /\ ShouldToggle(action, relays[id])
    THEN HandleToggleBody(id, action)
    ELSE /\ last' = Hist("voiceSkip", id, StateOf(relays, id), FALSE, action, AllOff)
         /\ UNCHANGED <<useDemoMode, relays, relayList, connectionStatus,
                        isCorsRestricted, polls, toggles, confirmTimers, effectPending,
                        intervals, overtaken, demoFinal>>

\* A voice command reaches the application.
VoiceCommand(id, action) ==
  /\ UNCHANGED exceptApp
  /\ ~effectPending
  /\ HandleVoiceCommand(id, action)

\* toggleRelayRequest resolved: handleToggle resumes in its try block.
ToggleResolved(k) ==
  /\ ~effectPending
  /\ k \in 1 .. Len(toggles)
  /\ toggles' = RemoveAt(toggles, k)
  /\ IF toggles[k].restricted
       THEN confirmTimers' = confirmTimers
       ELSE confirmTimers' = Append(confirmTimers, [status |-> toggles[k].status])
  /\ last' = Hist("toggleResolved", toggles[k].id, toggles[k].was, FALSE,
                  IF toggles[k].restricted THEN "skipped" ELSE "scheduled", AllOff)
  /\ UNCHANGED <<useDemoMode, relays, relayList, connectionStatus, isCorsRestricted,
                 polls, effectPending, intervals, overtaken, demoFinal>>
  /\ UNCHANGED exceptApp

\* toggleRelayRequest rejected: handleToggle resumes in its catch block.
ToggleRejected(k) ==
  /\ ~effectPending
  /\ k \in 1 .. Len(toggles)
  /\ toggles' = RemoveAt(toggles, k)
  /\ relays' = Flip(relays, toggles[k].id)
  /\ relayList' = ToggleList(relayList, toggles[k].id)
  /\ last' = Hist("toggleRejected", toggles[k].id, toggles[k].was, FALSE, "none", AllOff)
  /\ UNCHANGED <<useDemoMode, connectionStatus, isCorsRestricted, polls,
                 confirmTimers, effectPending, intervals, overtaken, demoFinal>>
  /\ UNCHANGED exceptApp

\* The confirmation timer fires: syncStatus of the render handleToggle ran in.
ConfirmTimerFires(k) ==
  /\ ~effectPending
  /\ k \in 1 .. Len(confirmTimers)
  /\ confirmTimers' = RemoveAt(confirmTimers, k)
  /\ LET s == SyncStatus(FALSE, confirmTimers[k].status, Current)
     IN /\ Apply(useDemoMode, s)
        /\ last' = Hist("confirm", -1, FALSE, s.net, "none", AllOff)
  /\ UNCHANGED <<relays, relayList, toggles, intervals, demoFinal>>
  /\ UNCHANGED exceptApp

\* handleLcdSubmit with a text to send: updateLcdText is called unless in demo
\* mode, where a local delay stands in for it.
HandleLcdSubmit ==
  /\ UNCHANGED exceptDisplay
  /\ ~effectPending
  /\ Len(toggles) + Len(confirmTimers) + Len(lcds) < MaxToggles
  /\ isSendingLcd' = TRUE
  /\ lcds' = Append(lcds, [net |-> ~useDemoMode])
  /\ last' = Hist("lcd", -1, FALSE, ~useDemoMode, "none", AllOff)
  /\ UNCHANGED <<useDemoMode, relays, relayList, connectionStatus, isCorsRestricted,
                 polls, toggles, confirmTimers, effectPending, intervals, overtaken,
                 demoFinal>>

\* Mutant: the flag is cleared in the try block, not in finally.
SendingAfterSuccessOnly(ok, flag) == IF ok THEN FALSE ELSE flag

\* finally { setIsSendingLcd(false) }
SendingAfter(ok, flag) == FALSE

\* The await of handleLcdSubmit is over: updateLcdText or the demo delay has
\* resolved, or updateLcdText has thrown; try or catch, then finally.
LcdFinishes(k, ok) ==
  /\ UNCHANGED exceptDisplay
  /\ ~effectPending
  /\ k \in 1 .. Len(lcds)
  /\ ok \/ lcds[k].net
  /\ lcds' = RemoveAt(lcds, k)
  /\ isSendingLcd' = SendingAfter(ok, isSendingLcd)
  /\ last' = Hist(IF ok THEN "lcdDone" ELSE "lcdFailed", -1, FALSE, FALSE, "none", AllOff)
  /\ UNCHANGED <<useDemoMode, relays, relayList, connectionStatus, isCorsRestricted,
                 polls, toggles, confirmTimers, effectPending, intervals, overtaken,
                 demoFinal>>

\* The demo-mode switch of the settings dialog (and "Switch to Demo Mode").
SetDemoMode ==
  /\ UNCHANGED exceptApp
  /\ ~effectPending
  /\ ~device.settled
  /\ LET s == Current
     IN /\ Apply(~useDemoMode, s)
        /\ demoFinal' = NoFinal
        /\ last' = Hist("setDemo", -1, FALSE, s.net, "none", AllOff)
        /\ UNCHANGED <<relays, relayList, toggles, confirmTimers, intervals>>

NextApp ==
  \/ PollingEffect
  \/ IntervalTick
  \/ SaveChanges
  \/ SetIpAddress
  \/ \E k \in 1 .. MaxPolls, o \in PollOutcomes :
        \E st \in (IF o = "StatesKnown" THEN PollStates ELSE {AllOff}) : PollComplete(k, o, st)
  \/ \E id \in CalledIds : HandleToggle(id)
  \/ \E id \in CalledIds, action \in {"on", "off"} : VoiceCommand(id, action)
  \/ \E k \in 1 .. MaxToggles : ToggleResolved(k)
  \/ \E k \in 1 .. MaxToggles : ToggleRejected(k)
  \/ \E k \in 1 .. MaxToggles : ConfirmTimerFires(k)
  \/ HandleLcdSubmit
  \/ \E k \in 1 .. MaxToggles, ok \in BOOLEAN : LcdFinishes(k, ok)
  \/ SetDemoMode

----
\* fetchRelayStatus, one await at a time.
HttpStatuses == {200, 204, 404, 500}

\* Mutant: only server errors count as a failed response.
ResponseOkBelow500(status) == status < 500

\* response.ok
ResponseOk(status) == status \in 200 .. 299

NoOutcome == [kind |-> "none", states |-> AllOff, error |-> "none"]

\* return parseRelayStatus(text)
ReturnStates(text) == [kind |-> "StatesKnown", states |-> parseRelayStatus(text), error |-> "none"]

\* Mutant: the inner catch throws its own error, pingError.
FallbackThrowsPingError(pinged, error) ==
  IF pinged
    THEN [kind |-> "ReachableOpaque", states |-> AllOff, error |-> "none"]
    ELSE [kind |-> "Unreachable", states |-> AllOff, error |-> "ping"]

\* The inner try/catch: return null when the ping went through, else throw the
\* error the outer catch holds.
Fallback(pinged, error) ==
  IF pinged
    THEN [kind |-> "ReachableOpaque", states |-> AllOff, error |-> "none"]
    ELSE [kind |-> "Unreachable", states |-> AllOff, error |-> error]

\* Mutant: the catch block repeats the cors request.
RetryReadable(requests) == Append(requests, "cors")

\* The outer catch: await fetch(..., { mode: 'no-cors' }).
IssueFallback(requests) == Append(requests, "no-cors")

InitProbe ==
  /\ pRequests = <<>>
  /\ pPc = "idle"
  /\ pFetch1 = "none"
  /\ pStatus = 0
  /\ pText = "none"
  /\ pBody = <<>>
  /\ pFetch2 = "none"
  /\ pError = "none"
  /\ pOutcome = NoOutcome

\* fetchRelayStatus(ip) is called: the cors request is issued.
ProbeStart ==
  /\ pPc = "idle"
  /\ pPc' = "tier1"
  /\ pRequests' = <<"cors">>
  /\ UNCHANGED <<pFetch1, pStatus, pText, pBody, pFetch2, pError, pOutcome>>
  /\ UNCHANGED exceptProbe

\* The cors fetch resolves with a response.
Tier1Resolves(status) ==
  /\ pPc = "tier1"
  /\ pFetch1' = "resolved"
  /\ pStatus' = status
  /\ IF ResponseOk(status)
       THEN pPc' = "text" /\ pError' = pError /\ pRequests' = pRequests
       ELSE pPc' = "tier2" /\ pError' = "http" /\ pRequests' = IssueFallback(pRequests)
  /\ UNCHANGED <<pText, pBody, pFetch2, pOutcome>>
  /\ UNCHANGED exceptProbe

\* The cors fetch rejects: the network failed or the response was not readable.
Tier1Rejects ==
  /\ pPc = "tier1"
  /\ pFetch1' = "rejected"
  /\ pError' = "network"
  /\ pPc' = "tier2"
  /\ pRequests' = IssueFallback(pRequests)
  /\ UNCHANGED <<pStatus, pText, pBody, pFetch2, pOutcome>>
  /\ UNCHANGED exceptProbe

\* The 3000 ms timer aborts the cors fetch.
Tier1TimesOut ==
  /\ pPc = "tier1"
  /\ pFetch1' = "aborted"
  /\ pError' = "abort"
  /\ pPc' = "tier2"
  /\ pRequests' = IssueFallback(pRequests)
  /\ UNCHANGED <<pStatus, pText, pBody, pFetch2, pOutcome>>
  /\ UNCHANGED exceptProbe

\* response.text() resolves with the body.
TextResolves(body) ==
  /\ pPc = "text"
  /\ pText' = "read"
  /\ pBody' = body
  /\ pOutcome' = ReturnStates(body)
  /\ pPc' = "done"
  /\ UNCHANGED pRequests
  /\ UNCHANGED <<pFetch1, pStatus, pFetch2, pError>>
  /\ UNCHANGED exceptProbe

\* response.text() rejects.
TextRejects ==
  /\ pPc = "text"
  /\ pText' = "failed"
  /\ pError' = "body"
  /\ pPc' = "tier2"
  /\ pRequests' = IssueFallback(pRequests)
  /\ UNCHANGED <<pFetch1, pStatus, pBody, pFetch2, pOutcome>>
  /\ UNCHANGED exceptProbe

\* The no-cors fetch resolves (with an opaque response).
Tier2Resolves ==
  /\ pPc = "tier2"
  /\ pFetch2' = "resolved"
  /\ pOutcome' = Fallback(TRUE, pError)
  /\ pPc' = "done"
  /\ UNCHANGED pRequests
  /\ UNCHANGED <<pFetch1, pStatus, pText, pBody, pError>>
  /\ UNCHANGED exceptProbe

\* The no-cors fetch rejects.
Tier2Rejects ==
  /\ pPc = "tier2"
  /\ pFetch2' = "rejected"
  /\ pOutcome' = Fallback(FALSE, pError)
  /\ pPc' = "done"
  /\ UNCHANGED pRequests
  /\ UNCHANGED <<pFetch1, pStatus, pText, pBody, pError>>
  /\ UNCHANGED exceptProbe

\* The 1000 ms timer aborts the no-cors fetch.
Tier2TimesOut ==
  /\ pPc = "tier2"
  /\ pFetch2' = "aborted"
  /\ pOutcome' = Fallback(FALSE, pError)
  /\ pPc' = "done"
  /\ UNCHANGED pRequests
  /\ UNCHANGED <<pFetch1, pStatus, pText, pBody, pError>>
  /\ UNCHANGED exceptProbe

\* The caller has taken the result; the next invocation starts afresh.
ProbeReturns ==
  /\ pPc = "done"
  /\ pPc' = "idle"
  /\ pFetch1' = "none"
  /\ pStatus' = 0
  /\ pText' = "none"
  /\ pBody' = <<>>
  /\ pFetch2' = "none"
  /\ pError' = "none"
  /\ pOutcome' = NoOutcome
  /\ pRequests' = <<>>
  /\ UNCHANGED exceptProbe

NextProbe ==
  \/ ProbeStart
  \/ \E st \in HttpStatuses : Tier1Resolves(st)
  \/ Tier1Rejects
  \/ Tier1TimesOut
  \/ \E body \in Texts : TextResolves(body)
  \/ TextRejects
  \/ Tier2Resolves
  \/ Tier2Rejects
  \/ Tier2TimesOut
  \/ ProbeReturns

----
\* The voice command engine of VoiceControl.

\* \s of a regular expression, and what String.prototype.trim strips.
WhiteSpace == {" ", "\t", "\n"}

\* \w of a regular expression.
IsWordChar(c) ==
  \/ \E k \in 1 .. Len(Lowers) : Lowers[k] = c \/ Uppers[k] = c
  \/ \E k \in 1 .. Len(Digits) : Digits[k] = c
  \/ c = "_"

RECURSIVE TrimStart(_)
TrimStart(s) == IF s # <<>> /\ Head(s) \in WhiteSpace THEN TrimStart(Tail(s)) ELSE s

RECURSIVE TrimEnd(_)
TrimEnd(s) ==
  IF s # <<>> /\ s[Len(s)] \in WhiteSpace THEN TrimEnd(SubSeq(s, 1, Len(s) - 1)) ELSE s

trim(s) == TrimEnd(TrimStart(s))

\* cmd.includes(sub)
Includes(cmd, sub) == \E p \in 1 .. (Len(cmd) + 1) : LiteralAt(cmd, p, sub, FALSE)

\* /\bword\b/.test(cmd)
WholeWord(cmd, word) ==
  \E p \in 1 .. Len(cmd) :
     /\ LiteralAt(cmd, p, word, FALSE)
     /\ p = 1 \/ ~IsWordChar(cmd[p - 1])
     /\ p + Len(word) > Len(cmd) \/ ~IsWordChar(cmd[p + Len(word)])

\* The patterns of checkForWakeWord, in order: head, \s+ or \s*, tail; anchored
\* ones begin with ^. All carry the `i` flag.
WakePatterns == <<
  [anchored |-> FALSE, head |-> <<"h", "e", "y">>, gap |-> "plus", tail |-> <<"m", "e", "w">>],
  [anchored |-> FALSE, head |-> <<"h", "e", "y">>, gap |-> "plus", tail |-> <<"m", "u">>],
  [anchored |-> FALSE, head |-> <<"h", "e", "y">>, gap |-> "plus", tail |-> <<"n", "e", "w">>],
  [anchored |-> FALSE, head |-> <<"h", "e", "y">>, gap |-> "plus", tail |-> <<"y", "o", "u">>],
  [anchored |-> FALSE, head |-> <<"h", "e", "y">>, gap |-> "plus", tail |-> <<"m", "e">>],
  [anchored |-> FALSE, head |-> <<"h", "e", "y">>, gap |-> "plus", tail |-> <<"m", "e", "n", "u">>],
  [anchored |-> FALSE, head |-> <<"m", "e", "w">>, gap |-> "star", tail |-> <<"m", "e", "w">>],
  [anchored |-> FALSE, head |-> <<"m", "e", "o", "w">>, gap |-> "star", tail |-> <<"m", "e", "o", "w">>],
  [anchored |-> FALSE, head |-> <<"h", "e", "y">>, gap |-> "plus", tail |-> <<"m", "e", "o", "w">>],
  [anchored |-> FALSE, head |-> <<"h", "i">>, gap |-> "plus", tail |-> <<"m", "e", "w">>],
  [anchored |-> FALSE, head |-> <<"h", "e", "l", "l", "o">>, gap |-> "plus", tail |-> <<"m", "e", "w">>],
  [anchored |-> FALSE, head |-> <<"o", "k">>, gap |-> "plus", tail |-> <<"m", "e", "w">>],
  [anchored |-> FALSE, head |-> <<"h", "e", "y">>, gap |-> "plus", tail |-> <<"m", "a", "y">>],
  [anchored |-> FALSE, head |-> <<"h", "e", "y">>, gap |-> "plus", tail |-> <<"m", "a", "n">>],
  [anchored |-> TRUE, head |-> <<"t", "u", "r", "n">>, gap |-> "plus", tail |-> <<"o", "n">>],
  [anchored |-> TRUE, head |-> <<"t", "u", "r", "n">>, gap |-> "plus", tail |-> <<"o", "f", "f">>],
  [anchored |-> TRUE, head |-> <<"s", "w", "i", "t", "c", "h">>, gap |-> "plus", tail |-> <<"o", "n">>],
  [anchored |-> TRUE, head |-> <<"s", "w", "i", "t", "c", "h">>, gap |-> "plus", tail |-> <<"o", "f", "f">>],
  [anchored |-> TRUE, head |-> <<"t", "u", "r", "n">>, gap |-> "plus", tail |-> <<"o", "f">>],
  [anchored |-> TRUE, head |-> <<"t", "u", "r", "n">>, gap |-> "plus", tail |-> <<"o", "n", "n">>],
  [anchored |-> TRUE, head |-> <<"o", "n">>, gap |-> "plus", tail |-> <<>>],
  [anchored |-> TRUE, head |-> <<"o", "f", "f">>, gap |-> "plus", tail |-> <<>>],
  [anchored |-> TRUE, head |-> <<"s", "t", "a", "r", "t">>, gap |-> "plus", tail |-> <<>>],
  [anchored |-> TRUE, head |-> <<"s", "t", "o", "p">>, gap |-> "plus", tail |-> <<>>]
>>

\* pattern.test(text)
PatternTest(pat, text) ==
  \E p \in (IF pat.anchored THEN {1} ELSE 1 .. (Len(text) + 1)) :
     /\ LiteralAt(text, p, pat.head, TRUE)
     /\ \E k \in (IF pat.gap = "plus" THEN 1 ELSE 0) .. Len(text) :
          /\ \A j \in 0 .. (k - 1) :
               /\ p + Len(pat.head) + j <= Len(text)
               /\ text[p + Len(pat.head) + j] \in WhiteSpace
          /\ LiteralAt(text, p + Len(pat.head) + k, pat.tail, TRUE)

checkForWakeWord(text) == \E n \in 1 .. Len(WakePatterns) : PatternTest(WakePatterns[n], text)

NoCommand == [relay |-> -1, action |-> "none"]

\* Mutant: the chain is walked from relay 3 down to relay 0.
CommandRelayHighestFirst(cmd) ==
  IF Includes(cmd, <<"r", "e", "l", "a", "y", " ", "4">>) \/ Includes(cmd, <<"f", "o", "u", "r">>) \/ Includes(cmd, <<"f", "a", "n">>) THEN 3
  ELSE IF Includes(cmd, <<"r", "e", "l", "a", "y", " ", "3">>) \/ Includes(cmd, <<"t", "h", "r", "e", "e">>) \/ Includes(cmd, <<"k", "i", "t", "c", "h", "e", "n">>) THEN 2
  ELSE IF Includes(cmd, <<"r", "e", "l", "a", "y", " ", "2">>) \/ Includes(cmd, <<"t", "w", "o">>) \/ Includes(cmd, <<"b", "e", "d", "r", "o", "o", "m", " ", "l", "i", "g", "h", "t">>) THEN 1
  ELSE IF Includes(cmd, <<"r", "e", "l", "a", "y", " ", "1">>) \/ Includes(cmd, <<"o", "n", "e">>) \/ Includes(cmd, <<"l", "i", "v", "i", "n", "g", " ", "r", "o", "o", "m">>) THEN 0
  ELSE -1

\* The relay processCommand picks: the first branch of the if/else-if chain.
CommandRelay(cmd) ==
  IF Includes(cmd, <<"r", "e", "l", "a", "y", " ", "1">>) \/ Includes(cmd, <<"o", "n", "e">>) \/ Includes(cmd, <<"l", "i", "v", "i", "n", "g", " ", "r", "o", "o", "m">>) THEN 0
  ELSE IF Includes(cmd, <<"r", "e", "l", "a", "y", " ", "2">>) \/ Includes(cmd, <<"t", "w", "o">>) \/ Includes(cmd, <<"b", "e", "d", "r", "o", "o", "m", " ", "l", "i", "g", "h", "t">>) THEN 1
  ELSE IF Includes(cmd, <<"r", "e", "l", "a", "y", " ", "3">>) \/ Includes(cmd, <<"t", "h", "r", "e", "e">>) \/ Includes(cmd, <<"k", "i", "t", "c", "h", "e", "n">>) THEN 2
  ELSE IF Includes(cmd, <<"r", "e", "l", "a", "y", " ", "4">>) \/ Includes(cmd, <<"f", "o", "u", "r">>) \/ Includes(cmd, <<"f", "a", "n">>) THEN 3
  ELSE -1

IsOffCommand(cmd) ==
  \/ WholeWord(cmd, <<"o", "f", "f">>) \/ WholeWord(cmd, <<"o", "f">>)
  \/ Includes(cmd, <<"s", "t", "o", "p">>) \/ Includes(cmd, <<"k", "i", "l", "l">>) \/ Includes(cmd, <<"d", "e", "a", "c", "t", "i", "v", "a", "t", "e">>) \/ Includes(cmd, <<"s", "h", "u", "t", "d", "o", "w", "n">>)

IsOnCommand(cmd) ==
  \/ WholeWord(cmd, <<"o", "n">>) \/ WholeWord(cmd, <<"o", "n", "n">>)
  \/ Includes(cmd, <<"s", "t", "a", "r", "t">>) \/ Includes(cmd, <<"a", "c", "t", "i", "v", "e">>) \/ Includes(cmd, <<"e", "n", "a", "b", "l", "e">>) \/ Includes(cmd, <<"e", "n", "g", "a", "g", "e">>)

\* Mutant: isOn is looked at before isOff.
processCommandOnFirst(cmd) ==
  LET relayId == CommandRelay(cmd)
  IN IF relayId = -1 THEN NoCommand
     ELSE IF IsOnCommand(cmd) THEN [relay |-> relayId, action |-> "on"]
     ELSE IF IsOffCommand(cmd) THEN [relay |-> relayId, action |-> "off"]
     ELSE NoCommand

\* processCommand: the call of commandFn it makes, or none.
processCommand(cmd) ==
  LET relayId == CommandRelay(cmd)
  IN IF relayId = -1 THEN NoCommand
     ELSE IF IsOffCommand(cmd) THEN [relay |-> relayId, action |-> "off"]
     ELSE IF IsOnCommand(cmd) THEN [relay |-> relayId, action |-> "on"]
     ELSE NoCommand

\* The transcript is trimmed but its case is kept.
NormalizeKeepingCase(finalTranscript) == trim(finalTranscript)

\* const cmd = finalTranscript.toLowerCase().trim()
Normalize(finalTranscript) == trim(toLowerCase(finalTranscript))

\* The awake state is not consulted: every transcript is processed.
BranchAlwaysAwake(hasWakeWord, awake) == IF hasWakeWord THEN "wake" ELSE "command"

\* Mutant: the last else is missing, what is not a command wakes.
BranchNeverIgnores(hasWakeWord, awake) ==
  IF hasWakeWord \/ ~awake THEN "wake" ELSE "command"

\* The three branches of onresult for a final transcript.
Branch(hasWakeWord, awake) ==
  IF hasWakeWord THEN "wake" ELSE IF awake THEN "command" ELSE "ignored"

\* Mutant: the pending timer is not cleared before the new one is set.
ArmAwakeTimerKeepingOld(timers, t) == timers \cup {t + AwakeWindowMs}

\* activateAwakeMode: the pending timer is cleared and a new one is set.
ArmAwakeTimer(timers, t) == {t + AwakeWindowMs}

\* The final transcripts the recognizer delivers in the model.
Utterances == {
  <<"h", "e", "y", " ", "m", "e", "w", " ", "t", "u", "r", "n", " ", "o", "n", " ", "l", "i", "v", "i", "n", "g", " ", "r", "o", "o", "m">>,
  <<" ", "k", "i", "t", "c", "h", "e", "n", " ", "o", "f", "f">>,
  <<"t", "u", "r", "n", " ", "o", "f", "f", " ", "t", "h", "e", " ", "f", "a", "n">>,
  <<"h", "e", "y", " ", "m", "e", "w">>,
  <<"K", "i", "t", "c", "h", "e", "n", " ", "O", "N">>,
  <<"h", "e", "l", "l", "o", " ", "t", "h", "e", "r", "e">>,
  <<"H", "E", "Y", " ", " ", "M", "E", "N", "U", " ", "R", "e", "l", "a", "y", " ", "2", " ", "O", "N">>
}

\* The interim transcripts the recognizer delivers in the model.
Interims == {
  <<"h", "e", "y", " ", "m", "e", "w", " ", "t", "u", "r", "n", " ", "o", "n", " ", "l", "i", "v", "i", "n", "g", " ", "r", "o", "o", "m">>,
  <<" ", "k", "i", "t", "c", "h", "e", "n", " ", "o", "f", "f">>
}

\* What onresult computes from each final transcript: cmd, hasWakeWord and the
\* call processCommand(cmd, ...) would make.
Heard ==
  [u \in Utterances |->
     LET cmd == Normalize(u)
     IN [cmd |-> cmd, hasWakeWord |-> checkForWakeWord(cmd), command |-> processCommand(cmd)]]

\* The utterances that count as a wake trigger: a wake pattern matches them.
WakeTriggers == {u \in Utterances : checkForWakeWord(trim(u))}

InitVoice ==
  /\ now = 0
  /\ isListening = FALSE
  /\ isAlwaysListening = FALSE
  /\ recState = "idle"
  /\ restartTimers = 0
  /\ micDenied = FALSE
  /\ isAwake = FALSE
  /\ awakeTimers = {}
  /\ wakeAt = -1
  /\ userStopped = FALSE
  /\ denied = FALSE
  /\ vLast = [op |-> "render", text |-> <<>>, issued |-> NoCommand, pre |-> AllOff,
              awake |-> FALSE, timers |-> {}, at |-> 0, listening |-> FALSE,
              session |-> "idle", restarts |-> 0]

VHist(op, text, issued) ==
  [op |-> op, text |-> text, issued |-> issued, pre |-> relays,
   awake |-> isAwake, timers |-> awakeTimers, at |-> now, listening |-> isListening,
   session |-> recState, restarts |-> restartTimers]

\* Time passes; a timer that is due fires before the clock moves on.
Tick ==
  /\ now < MaxTicks * TickMs
  /\ \A d \in awakeTimers : now < d
  /\ now' = now + TickMs
  /\ UNCHANGED <<isListening, isAlwaysListening, recState, restartTimers, micDenied,
                 isAwake, awakeTimers, wakeAt, userStopped, denied, vLast>>
  /\ UNCHANGED exceptVoice

\* The callback of the awake timer set by activateAwakeMode.
AwakeTimerFires(d) ==
  /\ d \in awakeTimers
  /\ d <= now
  /\ awakeTimers' = awakeTimers \ {d}
  /\ isAwake' = FALSE
  /\ vLast' = VHist("awakeTimer", <<>>, NoCommand)
  /\ UNCHANGED <<now, isListening, isAlwaysListening, recState, restartTimers,
                 micDenied, wakeAt, userStopped, denied>>
  /\ UNCHANGED exceptVoice

\* recognition.start(): an idle recognizer starts, any other throws.
Started(state) == IF state = "idle" THEN "starting" ELSE state

\* Mutant: stop() leaves the session running.
StoppedNot(state) == state

\* recognition.stop(): a session that is starting or running is ended.
Stopped(state) == IF state \in {"starting", "running"} THEN "stopping" ELSE state

\* A click on the microphone button.
ToggleListening ==
  /\ IF isListening
       THEN /\ isAlwaysListening' = FALSE
            /\ recState' = Stopped(recState)
       ELSE /\ isAlwaysListening' = TRUE
            /\ recState' = Started(recState)
  /\ userStopped' = isListening
  /\ denied' = FALSE
  /\ vLast' = VHist("toggleListening", <<>>, NoCommand)
  /\ UNCHANGED <<now, isListening, restartTimers, micDenied, isAwake, awakeTimers, wakeAt>>
  /\ UNCHANGED exceptVoice

\* recognitionInstance.onstart
OnStart ==
  /\ recState = "starting"
  /\ recState' = "running"
  /\ isListening' = TRUE
  /\ micDenied' = FALSE
  /\ vLast' = VHist("onstart", <<>>, NoCommand)
  /\ UNCHANGED <<now, isAlwaysListening, restartTimers, isAwake, awakeTimers, wakeAt,
                 userStopped, denied>>
  /\ UNCHANGED exceptVoice

\* Mutant: onend restarts the session whatever the intent is.
RestartsAfterEndAlways(intent, n) == n + 1

\* onend's auto-restart: setTimeout(..., 200) when the intent is set.
RestartsAfterEnd(intent, n) == IF intent THEN n + 1 ELSE n

\* recognitionInstance.onend: the session is over, by itself or after stop().
OnEnd ==
  /\ recState \in {"running", "stopping"}
  /\ recState' = "idle"
  /\ isListening' = IF isAlwaysListening THEN isListening ELSE FALSE
  /\ restartTimers' = RestartsAfterEnd(isAlwaysListening, restartTimers)
  /\ restartTimers' <= MaxRestarts
  /\ vLast' = VHist("onend", <<>>, NoCommand)
  /\ UNCHANGED <<now, isAlwaysListening, micDenied, isAwake, awakeTimers, wakeAt,
                 userStopped, denied>>
  /\ UNCHANGED exceptVoice

\* The restart timer of onend fires: recognitionInstance.start() in a try block.
RestartTimerFires ==
  /\ restartTimers > 0
  /\ restartTimers' = restartTimers - 1
  /\ recState' = Started(recState)
  /\ vLast' = VHist("restart", <<>>, NoCommand)
  /\ UNCHANGED <<now, isListening, isAlwaysListening, micDenied, isAwake, awakeTimers,
                 wakeAt, userStopped, denied>>
  /\ UNCHANGED exceptVoice

RecognitionErrors == {"no-speech", "not-allowed", "network"}

\* Mutant: every error but no-speech is handled as a denial.
IsDenialUnlessNoSpeech(error) == error # "no-speech"

\* event.error === 'not-allowed'
IsDenial(error) == error = "not-allowed"

\* recognitionInstance.onerror; the session ends after an error.
OnError(error) ==
  /\ recState \in {"starting", "running"}
  /\ recState' = "stopping"
  /\ IF IsDenial(error)
       THEN /\ micDenied' = TRUE
            /\ isAlwaysListening' = FALSE
            /\ isListening' = FALSE
       ELSE UNCHANGED <<micDenied, isAlwaysListening, isListening>>
  /\ vLast' = VHist(error, <<>>, NoCommand)
  /\ denied' = (IsDenial(error) \/ denied)
  /\ UNCHANGED <<now, restartTimers, isAwake, awakeTimers, wakeAt, userStopped>>
  /\ UNCHANGED exceptVoice

\* Mutant: the loop does not look at isFinal.
RECURSIVE FinalTranscriptOfAll(_)
FinalTranscriptOfAll(results) ==
  IF results = <<>> THEN <<>>
  ELSE Head(results).transcript \o FinalTranscriptOfAll(Tail(results))

\* The loop of onresult over event.results: finalTranscript, the transcripts
\* of the final results put together.
RECURSIVE FinalTranscript(_)
FinalTranscript(results) ==
  IF results = <<>> THEN <<>>
  ELSE (IF Head(results).isFinal THEN Head(results).transcript ELSE <<>>)
       \o FinalTranscript(Tail(results))

\* Mutant: activateAwakeMode is called in the command branch too.
RenewsWindowOnCommand(branch) == branch # "ignored"

\* activateAwakeMode is called in the wake branch only.
RenewsWindow(branch) == branch = "wake"

\* onresult after its loop: if (finalTranscript) { ... }
HandleTranscript(op, text, finalTranscript) ==
  IF finalTranscript = <<>>
    THEN /\ UNCHANGED <<isAwake, awakeTimers>>
         /\ UNCHANGED appVars
         /\ vLast' = VHist(op, text, NoCommand)
    ELSE LET heard == Heard[finalTranscript]
             branch == Branch(heard.hasWakeWord, isAwake)
             issued == IF branch = "ignored" THEN NoCommand ELSE heard.command
         IN /\ isAwake' = IF RenewsWindow(branch) THEN TRUE ELSE isAwake
            /\ awakeTimers' = IF RenewsWindow(branch) THEN ArmAwakeTimer(awakeTimers, now)
                                                      ELSE awakeTimers
            /\ IF issued = NoCommand
                 THEN UNCHANGED appVars
                 ELSE HandleVoiceCommand(issued.relay, issued.action)
            /\ vLast' = VHist(op, text, issued)

\* recognitionInstance.onresult with an interim result only.
OnInterimResult(interimTranscript) ==
  /\ recState \in {"running", "stopping"}
  /\ ~effectPending
  /\ HandleTranscript("interim", interimTranscript,
                      FinalTranscript(<<[isFinal |-> FALSE, transcript |-> interimTranscript]>>))
  /\ UNCHANGED <<now, isListening, isAlwaysListening, recState, restartTimers, micDenied,
                 wakeAt, userStopped, denied>>
  /\ UNCHANGED <<lcdVars, probeVars, extractVars, transportVars, deviceVars>>

\* recognitionInstance.onresult with a final transcript.
OnFinalResult(finalTranscript) ==
  /\ recState \in {"running", "stopping"}
  /\ ~effectPending
  /\ HandleTranscript("final", finalTranscript,
                      FinalTranscript(<<[isFinal |-> TRUE, transcript |-> finalTranscript]>>))
  /\ wakeAt' = IF finalTranscript \in WakeTriggers THEN now ELSE wakeAt
  /\ UNCHANGED <<now, isListening, isAlwaysListening, recState, restartTimers, micDenied,
                 userStopped, denied>>
  /\ UNCHANGED <<lcdVars, probeVars, extractVars, transportVars, deviceVars>>

NextVoice ==
  \/ PollingEffect
  \/ Tick
  \/ \E d \in awakeTimers : AwakeTimerFires(d)
  \/ ToggleListening
  \/ OnStart
  \/ OnEnd
  \/ RestartTimerFires
  \/ \E e \in RecognitionErrors : OnError(e)
  \/ \E u \in Utterances : OnFinalResult(u)
  \/ \E u \in Interims : OnInterimResult(u)

----
\* processCommand on its own, over command texts put together from phrases.
Phrases == {
  <<"r", "e", "l", "a", "y", " ", "1">>,
  <<"t", "w", "o">>,
  <<"k", "i", "t", "c", "h", "e", "n">>,
  <<"b", "e", "d", "r", "o", "o", "m", " ", "f", "a", "n">>,
  <<"l", "i", "v", "i", "n", "g", " ", "r", "o", "o", "m">>,
  <<"o", "n">>,
  <<"o", "f", "f">>,
  <<"o", "f">>,
  <<"s", "t", "a", "r", "t">>,
  <<"s", "t", "o", "p">>,
  <<"b", "u", "t", "t", "o", "n">>,
  <<"o", "f", "f", "i", "c", "e">>
}

RECURSIVE CommandsOf(_)
CommandsOf(n) ==
  IF n = 0 THEN {<<>>}
  ELSE CommandsOf(n - 1)
       \cup {IF c = <<>> THEN ph ELSE c \o <<" ">> \o ph : c \in CommandsOf(n - 1), ph \in Phrases}

Commands == CommandsOf(MaxPhrases)

InitExtract ==
  /\ pcCmd = <<>>
  /\ pcCall = NoCommand

\* processCommand(cmd, commandFn) is called with a text.
ProcessCommand(cmd) ==
  /\ pcCmd = <<>>
  /\ cmd # <<>>
  /\ pcCmd' = cmd
  /\ pcCall' = processCommand(cmd)
  /\ UNCHANGED exceptExtract

\* processCommand has returned; the next call starts afresh.
ProcessCommandReturns ==
  /\ pcCmd # <<>>
  /\ pcCmd' = <<>>
  /\ pcCall' = NoCommand
  /\ UNCHANGED exceptExtract

NextExtract ==
  \/ \E c \in Commands : ProcessCommand(c)
  \/ ProcessCommandReturns

----
\* toggleRelayRequest: the image beacon and its grace timer.
Http == <<"h", "t", "t", "p", ":", "/", "/">>
Https == <<"h", "t", "t", "p", "s", ":", "/", "/">>

\* ip.replace(/^https?:\/\//, '')
StripProtocol(ip) ==
  IF LiteralAt(ip, 1, Https, FALSE) THEN SubSeq(ip, Len(Https) + 1, Len(ip))
  ELSE IF LiteralAt(ip, 1, Http, FALSE) THEN SubSeq(ip, Len(Http) + 1, Len(ip))
  ELSE ip

\* .replace(/\/$/, ''): the expression matches once, at the end of the text.
StripTrailingSlash(text) ==
  IF text # <<>> /\ text[Len(text)] = "/" THEN SubSeq(text, 1, Len(text) - 1) ELSE text

getBaseUrl(ip) == Http \o StripTrailingSlash(StripProtocol(ip))

\* `/toggle?r=${relayIndex}`
ToggleQuery(relayIndex) ==
  <<"/", "t", "o", "g", "g", "l", "e", "?", "r", "=">> \o <<DigitChar(relayIndex)>>

Hosts == {
  <<"1", "9", "2", ".", "1", "6", "8", ".", "1", ".", "7">>,
  <<"e", "s", "p", "3", "2", ".", "l", "o", "c", "a", "l">>,
  <<"1", "0", ".", "0", ".", "0", ".", "2", ":", "8", "0", "8", "0">>
}

RECURSIVE Slashes(_)
Slashes(n) == IF n = 0 THEN <<>> ELSE <<"/">> \o Slashes(n - 1)

\* The addresses the settings dialog is given in the model.
Addresses == {sc \o h \o Slashes(n) : sc \in {<<>>, Http, Https}, h \in Hosts, n \in 0 .. MaxSlashes}

InitTransport ==
  /\ tPc = "idle"
  /\ tIp = <<>>
  /\ tIndex = -1
  /\ tBase = <<>>
  /\ tUrl = <<>>
  /\ tImg = "none"
  /\ tTimer = FALSE
  /\ tPromise = "none"
  /\ tBy = "none"

\* resolve(): a pending promise is fulfilled, a settled one stays as it is.
Resolve(promise) == IF promise = "pending" THEN "resolved" ELSE promise

\* Mutant: img.onerror calls reject().
OnErrorRejects(promise) == IF promise = "pending" THEN "rejected" ELSE promise

\* img.onerror: resolve()
OnErrorSettles(promise) == Resolve(promise)

\* toggleRelayRequest(ip, relayIndex): the executor of the promise runs.
ToggleRelayRequest(ip, relayIndex) ==
  /\ tPc = "idle"
  /\ tPc' = "called"
  /\ tIp' = ip
  /\ tIndex' = relayIndex
  /\ tBase' = getBaseUrl(ip)
  /\ tUrl' = tBase' \o ToggleQuery(relayIndex)
  /\ tImg' = "loading"
  /\ tTimer' = TRUE
  /\ tPromise' = "pending"
  /\ tBy' = "none"
  /\ UNCHANGED exceptTransport

\* img.onload
ImgOnLoad ==
  /\ tImg = "loading"
  /\ tImg' = "loaded"
  /\ tPromise' = Resolve(tPromise)
  /\ tBy' = IF tPromise = "pending" THEN "load" ELSE tBy
  /\ UNCHANGED <<tPc, tIp, tIndex, tBase, tUrl, tTimer>>
  /\ UNCHANGED exceptTransport

\* img.onerror
ImgOnError ==
  /\ tImg = "loading"
  /\ tImg' = "failed"
  /\ tPromise' = OnErrorSettles(tPromise)
  /\ tBy' = IF tPromise = "pending" THEN "error" ELSE tBy
  /\ UNCHANGED <<tPc, tIp, tIndex, tBase, tUrl, tTimer>>
  /\ UNCHANGED exceptTransport

\* The callback of setTimeout(() => resolve(), 100).
GraceTimerFires ==
  /\ tTimer
  /\ tTimer' = FALSE
  /\ tPromise' = Resolve(tPromise)
  /\ tBy' = IF tPromise = "pending" THEN "timer" ELSE tBy
  /\ UNCHANGED <<tPc, tIp, tIndex, tBase, tUrl, tImg>>
  /\ UNCHANGED exceptTransport

\* The caller's await is over; the next call starts afresh.
TransportReturns ==
  /\ tPc = "called"
  /\ tPromise # "pending"
  /\ tPc' = "idle"
  /\ tIp' = <<>>
  /\ tIndex' = -1
  /\ tBase' = <<>>
  /\ tUrl' = <<>>
  /\ tImg' = "none"
  /\ tTimer' = FALSE
  /\ tPromise' = "none"
  /\ tBy' = "none"
  /\ UNCHANGED exceptTransport

NextTransport ==
  \/ \E ip \in Addresses, relayIndex \in CalledIds : ToggleRelayRequest(ip, relayIndex)
  \/ ImgOnLoad
  \/ ImgOnError
  \/ GraceTimerFires
  \/ TransportReturns

----
Init == InitApp /\ InitProbe /\ InitVoice /\ InitExtract /\ InitTransport

Next == NextApp

\* The reconciler: polls, toggles and the settings.
Spec == Init /\ [][Next]_vars

\* Outside demo mode the device settles: from here on it has the relay states d,
\* every probe reads them, no relay is toggled and demo mode stays off. What is
\* in flight stays in flight.
Settle(d) ==
  /\ ~device.settled
  /\ ~useDemoMode
  /\ ~effectPending
  /\ device' = [settled |-> TRUE, states |-> d]
  /\ UNCHANGED <<appVars, lcdVars, probeVars, voiceVars, extractVars, transportVars>>

NextSettle ==
  \/ NextApp
  \/ \E d \in PollStates : Settle(d)

\* The reconciler with a device that settles. The polling effect runs after the
\* commit, the 5000 ms interval keeps ticking and every probe settles (3000 ms
\* and 1000 ms abort timers); toggle requests may stay in flight for ever.
SpecSettle ==
  /\ Init
  /\ [][NextSettle]_vars
  /\ WF_vars(PollingEffect)
  /\ SF_vars(IntervalTick)
  /\ SF_vars(\E k \in 1 .. MaxPolls, o \in PollOutcomes, st \in PollStates : PollComplete(k, o, st))

\* One fetchRelayStatus after another against a device that answers anything.
SpecProbe == Init /\ [][NextProbe]_vars

\* The same with the timers of the event loop: an armed abort timer whose
\* request is still pending fires in the end.
SpecProbeTimed == SpecProbe /\ WF_vars(Tier1TimesOut) /\ WF_vars(Tier2TimesOut)

\* The voice engine over the application as it starts, in demo mode.
SpecVoice == Init /\ [][NextVoice]_vars

\* Command extraction over every command text of the model.
SpecExtract == Init /\ [][NextExtract]_vars

\* One toggleRelayRequest after another; the image events may never come, the
\* grace timer fires while it is pending.
SpecTransport == Init /\ [][NextTransport]_vars /\ WF_vars(GraceTimerFires)

----
\* C1: right after a poll's StatesKnown(s) result is applied, every relay i has
\* isOn = s[i], the restricted flag is cleared and the status is Connected.
C1_StatesKnownApplied ==
  (last.op = "poll" /\ last.outcome = "StatesKnown") =>
     /\ \A i \in RelayIds : relays[i] = last.states[i]
     /\ ~isCorsRestricted
     /\ connectionStatus = "connected"

\* A readable poll that changed relay 3 and found the status not yet connected.
C1_Witness ==
  /\ last.op = "poll"
  /\ last.outcome = "StatesKnown"
  /\ last.pre[3] # last.states[3]
  /\ ~useDemoMode

\* C2: right after a poll's ReachableOpaque or Unreachable result is applied,
\* each relay's isOn is what it was just before.
C2_OpaqueOrUnreachableKeepsRelays ==
  (last.op = "poll" /\ last.outcome \in {"ReachableOpaque", "Unreachable"}) =>
     \A i \in RelayIds : relays[i] = last.pre[i]

\* An unreachable poll applied while relay 0 is on and relay 3 is off.
C2_Witness ==
  /\ last.op = "poll"
  /\ last.outcome = "Unreachable"
  /\ relays[0]
  /\ ~relays[3]

\* C3: right after requestToggle(id) ran, in any status, relay id is negated,
\* the other three relays are as before, and outside Demo the transport call of
\* this toggle has not completed yet.
C3_ToggleFlipsOnlyItsRelay ==
  (last.op = "toggle" /\ last.id \in RelayIds) =>
     /\ relays[last.id] = ~last.pre[last.id]
     /\ \A j \in RelayIds \ {last.id} : relays[j] = last.pre[j]
     /\ ~last.demo => /\ Len(toggles) > 0
                      /\ toggles[Len(toggles)].id = last.id

\* A toggle while Offline that turns relay 3 off and leaves relay 0 on.
C3_Witness ==
  /\ last.op = "toggle"
  /\ last.id = 3
  /\ last.pre[3]
  /\ relays[0]
  /\ ~useDemoMode
  /\ connectionStatus = "connecting"

\* C4: when the transport call of requestToggle(id) fails, relay id's isOn is
\* the value it had just before that requestToggle, in every interleaving.
C4_RevertRestoresPreToggleValue ==
  last.op = "toggleRejected" => StateOf(relays, last.id) = last.was

\* C5: while demoMode is true no operation initiates a network request (probe,
\* toggle or display text), the timers and callbacks created before the switch
\* to demo mode included.
C5_NoNetworkRequestInDemo ==
  last.net => ~useDemoMode

\* C6: while demoMode stays true, a relay toggled in Demo keeps the value that
\* toggle gave it until the next toggle of that relay.
C6_DemoToggleIsFinal ==
  useDemoMode =>
     \A i \in RelayIds : demoFinal[i] # "none" => relays[i] = (demoFinal[i] = "on")

\* C7: fetchRelayStatus ends in exactly one of three outcomes: StatesKnown iff
\* the readable tier succeeded (the cors fetch resolved with a 2xx status and the
\* body was read), ReachableOpaque iff it failed and the no-cors fetch resolved,
\* Unreachable iff both failed.
C7_ProbeOutcomeByTiers ==
  pPc = "done" =>
     LET readable == pFetch1 = "resolved" /\ pStatus \in 200 .. 299 /\ pText = "read"
         opaque == pFetch2 = "resolved"
     IN /\ pOutcome.kind \in PollOutcomes
        /\ pOutcome.kind = "StatesKnown" <=> readable
        /\ pOutcome.kind = "ReachableOpaque" <=> (~readable /\ opaque)
        /\ pOutcome.kind = "Unreachable" <=> (~readable /\ ~opaque)

\* The device answers 404 to the readable request and the ping goes through.
C7_Witness ==
  /\ pPc = "done"
  /\ pFetch1 = "resolved"
  /\ pStatus = 404
  /\ pFetch2 = "resolved"
  /\ pOutcome.kind = "ReachableOpaque"

\* The status line of relay i in lower case, up to its value.
LowerLabel(i) == <<"r", "e", "l", "a", "y", " ">> \o <<DigitChar(i + 1)>> \o <<":", " ">>

\* The status line of relay i with the given value stands at p in the text.
LineAt(text, i, value, p) == LiteralAt(toLowerCase(text), p, LowerLabel(i) \o value, FALSE)

\* Relay i is mentioned at p, with either value.
MentionAt(text, i, p) == LineAt(text, i, <<"o", "n">>, p) \/ LineAt(text, i, <<"o", "f", "f">>, p)

\* C8: the parser returns exactly 4 booleans; element i is true iff the first
\* mention of 'Relay {i+1}: ON|OFF' in the text, ignoring case, says ON; it is
\* false when that mention says OFF and when relay i+1 is not mentioned.
C8_ParserResult ==
  (pPc = "done" /\ pOutcome.kind = "StatesKnown") =>
     /\ DOMAIN pOutcome.states = 0 .. 3
     /\ \A i \in 0 .. 3 :
          /\ pOutcome.states[i] \in BOOLEAN
          /\ pOutcome.states[i] <=>
               \E p \in 1 .. Len(pBody) :
                  /\ LineAt(pBody, i, <<"o", "n">>, p)
                  /\ \A q \in 1 .. (p - 1) : ~MentionAt(pBody, i, q)

\* A body that mentions relay 1 first as OFF and later as ON: the result has
\* relay 0 off.
C8_Witness ==
  /\ pPc = "done"
  /\ pOutcome.kind = "StatesKnown"
  /\ \E p \in 1 .. Len(pBody) : LineAt(pBody, 0, <<"o", "f", "f">>, p)
  /\ \E p \in 1 .. Len(pBody) : LineAt(pBody, 0, <<"o", "n">>, p)
  /\ ~pOutcome.states[0]

\* The command a transcript holds once it is trimmed and lowered.
CommandIn == [u \in Utterances |-> processCommand(toLowerCase(trim(u)))]

HeyMewTurnOnLivingRoom ==
  <<"h", "e", "y", " ", "m", "e", "w", " ", "t", "u", "r", "n", " ", "o", "n", " ",
    "l", "i", "v", "i", "n", "g", " ", "r", "o", "o", "m">>

\* C9: right after a final utterance that matches a wake pattern (wake phrase
\* or direct-imperative prefix, ignoring case) was handled, the awake window is
\* armed for 10 s from that moment and the command found in that same utterance has
\* been issued; 'hey mew turn on living room' issues (relay 0, on).
C9_WakeUtteranceArmsAndExtracts ==
  (vLast.op = "final" /\ vLast.text \in WakeTriggers) =>
     /\ isAwake
     /\ awakeTimers = {vLast.at + AwakeWindowMs}
     /\ wakeAt = vLast.at
     /\ vLast.issued = CommandIn[vLast.text]
     /\ vLast.text = HeyMewTurnOnLivingRoom => vLast.issued = [relay |-> 0, action |-> "on"]

\* 'hey mew turn on living room' heard while not awake: the window is armed
\* and relay 0 goes on.
C9_Witness ==
  /\ vLast.op = "final"
  /\ vLast.text = HeyMewTurnOnLivingRoom
  /\ ~vLast.awake
  /\ isAwake
  /\ vLast.issued = [relay |-> 0, action |-> "on"]
  /\ ~vLast.pre[0]
  /\ relays[0]

\* C10: right after a final utterance without wake trigger was handled, its
\* command has been issued iff the awake window was open when it arrived; the
\* window was open if the last wake trigger is less than 10 s old, and closed
\* if there was none or it is more than 10 s old, in which case no command is
\* issued and the relays are untouched.
C10_PlainUtteranceNeedsOpenWindow ==
  (vLast.op = "final" /\ vLast.text \notin WakeTriggers) =>
     /\ vLast.awake => vLast.issued = CommandIn[vLast.text]
     /\ ~vLast.awake => vLast.issued = NoCommand /\ relays = vLast.pre
     /\ (wakeAt # -1 /\ vLast.at - wakeAt < AwakeWindowMs) => vLast.awake
     /\ (wakeAt = -1 \/ vLast.at - wakeAt > AwakeWindowMs) => ~vLast.awake

\* ' kitchen off' heard 5 s after a wake trigger turns relay 2 off.
C10_Witness ==
  /\ vLast.op = "final"
  /\ vLast.text = <<" ", "k", "i", "t", "c", "h", "e", "n", " ", "o", "f", "f">>
  /\ wakeAt # -1
  /\ vLast.at - wakeAt = TickMs
  /\ vLast.issued = [relay |-> 2, action |-> "off"]
  /\ vLast.pre[2]
  /\ ~relays[2]

\* ' kitchen off' heard more than 10 s after the last wake trigger while relay 2
\* is on: nothing is issued.
C10_WitnessExpired ==
  /\ vLast.op = "final"
  /\ vLast.text = <<" ", "k", "i", "t", "c", "h", "e", "n", " ", "o", "f", "f">>
  /\ wakeAt # -1
  /\ vLast.at - wakeAt > AwakeWindowMs
  /\ vLast.issued = NoCommand
  /\ relays[2]

\* C13: a voice command (id, action) toggles relay id only if the action changes
\* its state: on only when it is off, off only when it is on; otherwise the
\* relays are as before and no transport request is sent.
C13_VoiceCommandOnlyWhenItChanges ==
  /\ (last.op = "toggle" /\ last.outcome = "on") => (~last.was /\ StateOf(relays, last.id))
  /\ (last.op = "toggle" /\ last.outcome = "off") => (last.was /\ ~StateOf(relays, last.id))
  /\ last.op = "voiceSkip" =>
        /\ relays = last.pre
        /\ ~last.net
        /\ last.id \in RelayIds => (last.outcome = "on" <=> relays[last.id])

\* Outside demo mode, 'on' for relay 3 while it is on: nothing happens.
C13_Witness ==
  /\ last.op = "voiceSkip"
  /\ last.id = 3
  /\ last.outcome = "on"
  /\ relays[3]
  /\ ~useDemoMode

C15_ConfirmationOnlyWhenConnected ==
  last.op = "toggleResolved" =>
     /\ last.outcome = "scheduled" => (connectionStatus = "connected" /\ ~isCorsRestricted)
     /\ isCorsRestricted => last.outcome = "skipped"

\* C16: poll cycles never overlap: at any time at most one syncStatus is
\* suspended at its fetchRelayStatus.
C16_PollsNeverOverlap ==
  polls <= 1

\* C17: of two poll cycles that overlap, the earlier-started one's result is
\* never applied after the later-started one's: no result is applied for a poll
\* that a younger poll has overtaken.
C17_NoStaleResultApplied ==
  last.op = "poll" => ~last.stale

\* C18: at any time at most one periodic polling timer is armed.
C18_OnePollingTimer ==
  intervals <= 1

\* The polling effect has run again after the switch out of demo mode, and one
\* timer is armed.
C18_Witness ==
  /\ last.op = "effect"
  /\ ~useDemoMode
  /\ intervals = 1

\* C19: after a click has stopped listening, no recognition session is started
\* until the button is clicked again, a restart timer pending at the moment of
\* the stop included.
C19_NoSessionAfterStop ==
  userStopped => recState \notin {"starting", "running"}

C21_SessionEndFollowsIntent ==
  /\ vLast.op = "onend" =>
        IF isAlwaysListening
          THEN /\ isListening = vLast.listening
               /\ restartTimers = vLast.restarts + 1
          ELSE /\ ~isListening
               /\ recState = "idle"
               /\ restartTimers = vLast.restarts
  /\ (vLast.op = "restart" /\ vLast.session = "idle") => recState = "starting"

\* A running session ended by itself while the intent is set: still listening,
\* one restart pending.
C21_Witness ==
  /\ vLast.op = "onend"
  /\ vLast.session = "running"
  /\ isAlwaysListening
  /\ isListening
  /\ restartTimers = 1

\* C22: right after a permission-denial error the intent is cleared and the
\* engine is not listening (Denied); from then on no session is started until
\* the button is clicked again, not even by the session-end event that follows.
C22_NoSessionAfterDenial ==
  /\ vLast.op = "not-allowed" => (~isAlwaysListening /\ ~isListening /\ micDenied)
  /\ denied => recState \notin {"starting", "running"}

\* C27: every wake-triggered utterance leaves exactly one expiry timer, due a
\* full 10 s after that utterance, in place of any earlier one; at most one
\* expiry timer is pending at any time, and a timer that closes the window
\* fires no earlier than 10 s after the latest wake trigger.
C27_WindowRenewedInFull ==
  /\ Cardinality(awakeTimers) <= 1
  /\ (vLast.op = "final" /\ vLast.text \in WakeTriggers) =>
        awakeTimers = {vLast.at + AwakeWindowMs}
  /\ vLast.op = "awakeTimer" => (wakeAt # -1 /\ vLast.at - wakeAt >= AwakeWindowMs)

\* A wake trigger heard 5 s after the previous one: the timer that was due in
\* 5 s is replaced by one due in 10 s.
C27_Witness ==
  /\ vLast.op = "final"
  /\ vLast.text \in WakeTriggers
  /\ vLast.timers = {vLast.at + TickMs}
  /\ awakeTimers = {vLast.at + AwakeWindowMs}
  /\ isAwake

\* C25: after any sequence of polls, toggles, voice commands, display-text
\* commands and settings changes there are exactly four relays, with ids 0, 1,
\* 2, 3 in that order and the names they started with; only state and
\* isLoading ever change.
C25_FourRelaysFixedIdentity ==
  /\ Len(relayList) = 4
  /\ \A j \in 1 .. Len(relayList) :
        /\ relayList[j].id = j - 1
        /\ relayList[j].name = InitialRelays[j].name
  /\ DOMAIN relays = 0 .. 3

\* A readable poll has turned every relay on, relay 3 was toggled off and the
\* toggle failed: the list is the four relays again, relay 3 back on.
C25_Witness ==
  /\ last.op = "toggleRejected"
  /\ last.id = 3
  /\ relays[0]
  /\ relays[3]
  /\ Len(relayList) = 4

\* C26: outside demo mode, right after a ReachableOpaque poll result is applied
\* the status is connected with the restricted flag set (Restricted), and right
\* after an Unreachable one the status is error (Offline) with the flag cleared.
C26_OpaqueRestrictedUnreachableOffline ==
  (last.op = "poll" /\ ~useDemoMode) =>
     /\ last.outcome = "ReachableOpaque" =>
           (connectionStatus = "connected" /\ isCorsRestricted)
     /\ last.outcome = "Unreachable" =>
           (connectionStatus = "error" /\ ~isCorsRestricted)

\* An Unreachable result applied outside demo mode after an earlier readable
\* poll had turned relay 0 on: Offline, flag cleared, relay 0 still on.
C26_Witness ==
  /\ last.op = "poll"
  /\ last.outcome = "Unreachable"
  /\ ~useDemoMode
  /\ connectionStatus = "error"
  /\ ~isCorsRestricted
  /\ relays[0]

\* C29: a poll cycle is started only by the mount, a change of the address or
\* of demo mode, a tick of the periodic timer, a confirmation timer or a save of
\* the settings: a run of the polling effect that starts a poll follows the
\* first render, an address change or a demo-mode change, and nothing else.
C29_PollStartedOnlyByItsTriggers ==
  (last.op = "effect" /\ last.net) => last.outcome \in {"render", "setIp", "setDemo"}

\* C28: every probe invocation completes in the end with one of its three
\* outcomes, each tier being cut short by its own abort timer, also when the
\* headers of the readable response have arrived and its body never finishes.
C28_ProbeCompletes ==
  (pPc \in {"tier1", "text", "tier2"}) ~> (pPc = "done" /\ pOutcome.kind \in PollOutcomes)

\* C30: within one probe invocation the readable (cors) request is issued
\* exactly once and first, the opaque (no-cors) request at most once and only
\* after the readable tier has failed, and no tier is retried.
C30_EachTierAtMostOnce ==
  pPc # "idle" =>
     /\ pRequests \in {<<"cors">>, <<"cors", "no-cors">>}
     /\ Len(pRequests) = 2 <=>
           \/ pFetch1 \in {"rejected", "aborted"}
           \/ pFetch1 = "resolved" /\ pStatus \notin 200 .. 299
           \/ pText = "failed"

\* Both tiers timed out: one request each, the outcome is Unreachable.
C30_Witness ==
  /\ pPc = "done"
  /\ pFetch1 = "aborted"
  /\ pFetch2 = "aborted"
  /\ pRequests = <<"cors", "no-cors">>
  /\ pOutcome.kind = "Unreachable"

\* C23: the promise of toggleRelayRequest is never rejected, it is resolved as
\* soon as the image has loaded, the image has failed or the grace timer has
\* fired, whichever is first, and a pending promise is resolved in the end, also
\* when neither image event ever comes.
C23_ToggleAlwaysResolves ==
  /\ [](tPromise # "rejected")
  /\ []((tPc = "called" /\ (tImg # "loading" \/ ~tTimer)) => tPromise = "resolved")
  /\ (tPromise = "pending") ~> (tPromise = "resolved")

\* The image events are held back: the grace timer has resolved the promise
\* while the image is still loading.
C23_Witness ==
  /\ tPromise = "resolved"
  /\ tBy = "timer"
  /\ tImg = "loading"

\* C24: for every input address, with or without a leading http:// or https://
\* and with or without trailing slashes, the base URL is http:// followed by the
\* input less its scheme and less a trailing slash; it never ends with a slash.
C24_NormalizedAddress ==
  tPc = "called" =>
     /\ LiteralAt(tBase, 1, Http, FALSE)
     /\ \E sc \in {<<>>, Http, Https}, tail \in {<<>>, <<"/">>} :
           tIp = sc \o SubSeq(tBase, Len(Http) + 1, Len(tBase)) \o tail
     /\ tBase[Len(tBase)] # "/"

\* C34: the display-text command, in demo mode or not and whether it succeeds
\* or fails, leaves the four relay states as they were, at its start and at its
\* end; isSendingLcd is set at its start and cleared when it finishes.
C34_DisplayTextLeavesRelays ==
  /\ last.op = "lcd" => (relays = last.pre /\ isSendingLcd)
  /\ last.op \in {"lcdDone", "lcdFailed"} => (relays = last.pre /\ ~isSendingLcd)

\* Outside demo mode a display-text command has failed while relay 3 is on: the
\* flag is cleared, relay 3 is still on.
C34_Witness ==
  /\ last.op = "lcdFailed"
  /\ ~useDemoMode
  /\ relays[3]
  /\ ~isSendingLcd

\* C31: the status becomes error (Offline) only in the step that applies an
\* Unreachable poll result; the steps of a toggle, of a voice command and of the
\* display-text command, successful or failed, leave the status as it is.
C31_OfflineOnlyFromUnreachable ==
  [][/\ (connectionStatus' = "error" /\ connectionStatus # "error") =>
           (last'.op = "poll" /\ last'.outcome = "Unreachable")
     /\ last'.op \in {"toggle", "voiceSkip", "toggleResolved", "toggleRejected",
                      "lcd", "lcdDone", "lcdFailed"} =>
           connectionStatus' = connectionStatus]_vars

\* A toggle has failed outside demo mode and the status is still connected.
C31_Witness ==
  /\ last.op = "toggleRejected"
  /\ ~useDemoMode
  /\ connectionStatus = "connected"
  /\ ~isCorsRestricted

\* C36: a poll cycle run while demo mode is on is the no-op of demo mode: it
\* starts no probe, leaves the relay states as they were, and the status is
\* connected with the restricted flag cleared after it.
C36_DemoPollIsNoOp ==
  (last.op \in {"effect", "tick", "save", "confirm"} /\ last.demo) =>
     /\ ~last.net
     /\ relays = last.pre
     /\ connectionStatus = "connected"
     /\ ~isCorsRestricted

C32_ClosedWindowUtteranceIgnored ==
  (vLast.op = "final" /\ vLast.text \notin WakeTriggers /\ ~vLast.awake) =>
     /\ vLast.issued = NoCommand
     /\ isAwake = vLast.awake
     /\ awakeTimers = vLast.timers
     /\ relays = vLast.pre
     /\ isListening = vLast.listening
     /\ recState = vLast.session

\* 'Kitchen ON' heard by a running session that has never been woken.
C32_Witness ==
  /\ vLast.op = "final"
  /\ vLast.text = <<"K", "i", "t", "c", "h", "e", "n", " ", "O", "N">>
  /\ wakeAt = -1
  /\ ~isAwake
  /\ isListening
  /\ ~relays[2]

\* C33: a recognition error other than the permission denial leaves the
\* listening flag, the always-listening intent, the denial notice and the awake
\* window as they were.
C33_OtherErrorsChangeNothing ==
  [][vLast'.op \in (RecognitionErrors \ {"not-allowed"}) =>
        UNCHANGED <<isListening, isAlwaysListening, micDenied, isAwake, awakeTimers>>]_vars

\* A network error in a running session with the window open: still listening,
\* still awake.
C33_Witness ==
  /\ vLast.op = "network"
  /\ vLast.session = "running"
  /\ isListening
  /\ isAlwaysListening
  /\ isAwake
  /\ awakeTimers # {}

\* C39: right after an utterance without wake trigger was processed as a
\* command in an open awake window, the expiry timer of the window is the one
\* that was pending before it: only wake-triggered utterances renew the window.
C39_CommandDoesNotRenewWindow ==
  (vLast.op = "final" /\ vLast.text \notin WakeTriggers /\ vLast.awake) =>
     /\ awakeTimers = vLast.timers
     /\ isAwake

\* 'Kitchen ON' processed 5 s into the window: the timer is still due 5 s later.
C39_Witness ==
  /\ vLast.op = "final"
  /\ vLast.text = <<"K", "i", "t", "c", "h", "e", "n", " ", "O", "N">>
  /\ vLast.issued = [relay |-> 2, action |-> "on"]
  /\ vLast.timers = {vLast.at + TickMs}
  /\ awakeTimers = {vLast.at + TickMs}

\* C40: right after an interim result was handled, the awake window and the
\* relay states are what they were and no command has been issued, whatever
\* the interim text says.
C40_InterimResultDoesNothing ==
  vLast.op = "interim" =>
     /\ vLast.issued = NoCommand
     /\ isAwake = vLast.awake
     /\ awakeTimers = vLast.timers
     /\ relays = vLast.pre

\* 'hey mew turn on living room' as an interim result while not awake: the
\* window stays closed and relay 0 off.
C40_Witness ==
  /\ vLast.op = "interim"
  /\ Len(vLast.text) > Len(<<" ", "k", "i", "t", "c", "h", "e", "n", " ", "o", "f", "f">>)
  /\ vLast.text \in WakeTriggers
  /\ ~isAwake
  /\ ~relays[0]
  /\ vLast.session = "running"

\* The way the readable request of the invocation failed, read from what
\* happened to it rather than from the error variable.
C35_Tier1Failure ==
  CASE pFetch1 = "rejected" -> "network"
    [] pFetch1 = "aborted" -> "abort"
    [] pFetch1 = "resolved" /\ ~ResponseOk(pStatus) -> "http"
    [] pFetch1 = "resolved" /\ pText = "failed" -> "body"
    [] OTHER -> "none"

\* C35: when the probe ends Unreachable, the error it carries is the failure
\* of the readable request, whatever way the reachability ping failed.
C35_UnreachableCarriesTier1Error ==
  (pPc = "done" /\ pOutcome.kind = "Unreachable") =>
     /\ pOutcome.error = C35_Tier1Failure
     /\ pOutcome.error \in {"network", "abort", "http", "body"}
     /\ pFetch2 \in {"rejected", "aborted"}

\* The readable request was answered with 500 and the ping timed out: the
\* error thrown is the HTTP error, not the abort.
C35_Witness ==
  /\ pPc = "done"
  /\ pOutcome.kind = "Unreachable"
  /\ pStatus = 500
  /\ pFetch2 = "aborted"
  /\ pOutcome.error = "http"

\* C37: once the device has settled outside demo mode, the local relay states
\* eventually equal the device's and stay equal, whatever polls, toggle requests
\* and confirmation timers were pending when it settled.
C37_LocalStatesConverge ==
  <>[](device.settled => relays = device.states)

\* After the device settled with a toggle request still in flight, a poll has
\* replaced a differing local state by the device's.
C37_Witness ==
  /\ device.settled
  /\ last.op = "poll"
  /\ last.pre # relays
  /\ relays = device.states
  /\ Len(toggles) > 0

\* C11: extraction on a text that names a relay and matches both an off word
\* and an on word yields off; it yields on only when an on word matches and no
\* off word does.
C11_OffBeatsOn ==
  LET named == CommandRelay(pcCmd) # -1
  IN /\ (named /\ IsOffCommand(pcCmd) /\ IsOnCommand(pcCmd)) => pcCall.action = "off"
     /\ pcCall.action = "on" => (IsOnCommand(pcCmd) /\ ~IsOffCommand(pcCmd))

\* 'start stop' together with a relay: both word sets match, the call is off.
C11_Witness ==
  /\ CommandRelay(pcCmd) # -1
  /\ Includes(pcCmd, <<"s", "t", "a", "r", "t">>)
  /\ Includes(pcCmd, <<"s", "t", "o", "p">>)
  /\ pcCall.action = "off"

\* The ordinal name, number word and label each relay is known by.
RelayWords ==
  [i \in RelayIds |->
     CASE i = 0 -> {<<"r", "e", "l", "a", "y", " ", "1">>, <<"o", "n", "e">>,
                    <<"l", "i", "v", "i", "n", "g", " ", "r", "o", "o", "m">>}
       [] i = 1 -> {<<"r", "e", "l", "a", "y", " ", "2">>, <<"t", "w", "o">>,
                    <<"b", "e", "d", "r", "o", "o", "m", " ", "l", "i", "g", "h", "t">>}
       [] i = 2 -> {<<"r", "e", "l", "a", "y", " ", "3">>, <<"t", "h", "r", "e", "e">>,
                    <<"k", "i", "t", "c", "h", "e", "n">>}
       [] i = 3 -> {<<"r", "e", "l", "a", "y", " ", "4">>, <<"f", "o", "u", "r">>,
                    <<"f", "a", "n">>}]

\* The relays named somewhere in the text.
NamedIn(text) == {i \in RelayIds : \E w \in RelayWords[i] : Includes(text, w)}

\* C12: extraction picks the lowest id among the relays whose ordinal name,
\* number word or label occurs in the text; with no relay named or no action
\* word matching it yields none and no command is issued.
C12_LowestNamedRelay ==
  pcCmd # <<>> =>
     LET named == NamedIn(pcCmd)
     IN IF named = {} \/ ~(IsOffCommand(pcCmd) \/ IsOnCommand(pcCmd))
          THEN pcCall = NoCommand
          ELSE /\ pcCall.relay \in named
               /\ \A i \in named : pcCall.relay <= i

\* A text naming relay 2 (kitchen) ahead of relay 0 (relay 1): relay 0 is picked.
C12_Witness ==
  /\ NamedIn(pcCmd) = {0, 2}
  /\ \E p \in 1 .. Len(pcCmd) :
        /\ LiteralAt(pcCmd, p, <<"k", "i", "t", "c", "h", "e", "n", " ", "r", "e", "l", "a", "y", " ", "1">>, FALSE)
  /\ pcCall.relay = 0

====
